---------------------------- MODULE Spec2Model ----------------------------
(***************************************************************************)
(* Model of src/block_parser.py: the line-oriented block parser of 3ML.   *)
(*                                                                         *)
(* A string is a sequence of one-character strings.  The input is the     *)
(* list of lines source.splitlines() yields; `lines` holds the raw lines  *)
(* the loop of parse_blocks has consumed so far, so the line number of     *)
(* the line being processed is Len(lines) + 1.  Node references are        *)
(* indices into the heap `nodes`; node 1 is the Document.                  *)
(*                                                                         *)
(* `before` is a history variable the program does not have: before[i] is  *)
(* the stack and the heap as they were when line i was about to be         *)
(* processed.  No action reads it.                                         *)
(***************************************************************************)
EXTENDS Integers, Sequences, FiniteSets, TLC

VARIABLES lines, stack, nodes, metadata, status, errMsg, errLine, before

vars == <<lines, stack, nodes, metadata, status, errMsg, errLine, before>>

\* Longest input (number of lines) explored.
MaxLines == 4

-----------------------------------------------------------------------------
(* Characters and the str methods the parser uses                          *)

Whitespace == {" ", "\t"}

Digits == {"0", "1", "2", "3", "4", "5", "6", "7", "8", "9"}

DigitVal(c) ==
    CASE c = "0" -> 0 [] c = "1" -> 1 [] c = "2" -> 2 [] c = "3" -> 3
      [] c = "4" -> 4 [] c = "5" -> 5 [] c = "6" -> 6 [] c = "7" -> 7
      [] c = "8" -> 8 [] c = "9" -> 9

\* Mutant of rstrip: the line is left untrimmed.
rstripNone(s) == s

\* str.rstrip(): drop trailing whitespace.
RECURSIVE rstrip(_)
rstrip(s) ==
    IF s # <<>> /\ s[Len(s)] \in Whitespace
    THEN rstrip(SubSeq(s, 1, Len(s) - 1))
    ELSE s

\* str.lstrip(): drop leading whitespace.
RECURSIVE lstrip(_)
lstrip(s) ==
    IF s # <<>> /\ s[1] \in Whitespace THEN lstrip(Tail(s)) ELSE s

\* str.strip()
strip(s) == lstrip(rstrip(s))

\* str.startswith(prefix)
startswith(s, prefix) ==
    /\ Len(s) >= Len(prefix)
    /\ SubSeq(s, 1, Len(prefix)) = prefix

\* Index of the first whitespace character of s, Len(s) + 1 when none.
RECURSIVE FirstSpace(_, _)
FirstSpace(s, i) ==
    IF i > Len(s) \/ s[i] \in Whitespace THEN i ELSE FirstSpace(s, i + 1)

\* str.split(maxsplit=1): split on the first run of whitespace.
split1(s) ==
    LET t    == lstrip(s)
        i    == FirstSpace(t, 1)
        head == SubSeq(t, 1, i - 1)
        rest == lstrip(SubSeq(t, i, Len(t)))
    IN  IF t = <<>> THEN <<>>
        ELSE IF rest = <<>> THEN <<head>>
        ELSE <<head, rest>>

\* The character U+00B2 (superscript two), written as an ASCII token.
SuperscriptTwo == "^2"

\* Characters str.isdigit() accepts and int() rejects: digits that are not
\* decimal digits, such as the superscripts.
NonDecimalDigits == {SuperscriptTwo}

\* str.isdigit(): non-empty and all digits, decimal or not.
isdigit(s) == s # <<>> /\ \A i \in 1..Len(s) : s[i] \in Digits \cup NonDecimalDigits

\* Whether int(s) accepts the string: decimal digits only.
isdecimal(s) == s # <<>> /\ \A i \in 1..Len(s) : s[i] \in Digits

\* int(s) for a string of decimal digits.
RECURSIVE int(_)
int(s) ==
    IF s = <<>> THEN 0
    ELSE 10 * int(SubSeq(s, 1, Len(s) - 1)) + DigitVal(s[Len(s)])

-----------------------------------------------------------------------------
(* The document model                                                      *)

Document == "Document"
Section == "Section"
Paragraph == "Paragraph"
ListBlock == "ListBlock"
Definition == "Definition"
Theorem == "Theorem"

\* A node of the heap; fields a variant does not have keep their defaults.
Node(kind, level, title, text) ==
    [kind |-> kind, level |-> level, title |-> title, text |-> text,
     items |-> <<>>, children |-> <<>>]

NewDocument == Node(Document, 0, <<>>, <<>>)
NewSection(level, title) == Node(Section, level, title, <<>>)
NewParagraph(text) == Node(Paragraph, 0, <<>>, text)
NewListBlock == Node(ListBlock, 0, <<>>, <<>>)
NewDefinition(title) == Node(Definition, 0, title, <<>>)
NewTheorem(title) == Node(Theorem, 0, title, <<>>)

\* The Document's metadata dict, empty.
EmptyDict == [k \in {} |-> <<>>]

\* Mutant of DictSet: dict.setdefault, an earlier value is kept.
DictSetDefault(d, key, value) ==
    [k \in DOMAIN d \cup {key} |-> IF k \in DOMAIN d THEN d[k] ELSE value]

\* dict[key] = value
DictSet(d, key, value) ==
    [k \in DOMAIN d \cup {key} |-> IF k = key THEN value ELSE d[k]]

-----------------------------------------------------------------------------
(* The input lines explored                                                *)

LineSet ==
    { <<>>,                                  \* empty line
      <<" ">>,                               \* whitespace only
      <<"x">>,                               \* prose
      <<"y", " ">>,                          \* prose, trailing whitespace
      <<"-", " ", "a">>,                     \* list item
      <<"-", " ", "b", " ">>,                \* list item, trailing whitespace
      <<"-", " ">>,                          \* a dash and trailing whitespace
      <<"#", "e", "n", "d">>,
      <<"#", "s", "1", " ", "A">>,
      <<"#", "s", "2", " ", "B">>,
      <<"#", "s", "0">>,                     \* level 0, no title
      <<"#", "s", SuperscriptTwo>>,          \* a digit int() rejects
      <<"#", "l", "i", "s", "t">>,
      <<"#", "d", "e", "f", " ", "T">>,
      <<"#", "t", "h", "m", " ", "U">>,
      <<"#", "k", " ", "v">>,                \* other command word, argument
      <<"#", "k">> }                         \* other command word, no argument

-----------------------------------------------------------------------------
(* State                                                                   *)

Init ==
    /\ lines = <<>>
    /\ nodes = <<NewDocument>>
    /\ stack = <<1>>
    /\ metadata = EmptyDict
    /\ status = "running"
    /\ errMsg = "none"
    /\ errLine = 0
    /\ before = <<>>

Top(stk) == stk[Len(stk)]

IsKind(ref, kind) == nodes[ref].kind = kind

\* raise ParseError(f"Line {lineno}: {msg}"): nothing was mutated before it.
Raise(msg, lineno) ==
    /\ status' = "error"
    /\ errMsg' = msg
    /\ errLine' = lineno
    /\ UNCHANGED <<stack, nodes, metadata>>

\* int() raises ValueError: no ParseError, no line number; nothing was
\* mutated before it.
RaiseValueError ==
    /\ status' = "ValueError"
    /\ errMsg' = "invalid literal for int()"
    /\ errLine' = 0
    /\ UNCHANGED <<stack, nodes, metadata>>

\* The handler returns normally.
Return == UNCHANGED <<status, errMsg, errLine>>

\* Mutant of PopSections: pops only Sections of a strictly higher level.
RECURSIVE PopSectionsStrict(_, _)
PopSectionsStrict(stk, level) ==
    IF Len(stk) > 1 /\ IsKind(Top(stk), Section) /\ nodes[Top(stk)].level > level
    THEN PopSectionsStrict(SubSeq(stk, 1, Len(stk) - 1), level)
    ELSE stk

\* Mutant of PopSections: an if in place of the while, at most one pop.
PopSectionsOnce(stk, level) ==
    IF Len(stk) > 1 /\ IsKind(Top(stk), Section) /\ nodes[Top(stk)].level >= level
    THEN SubSeq(stk, 1, Len(stk) - 1)
    ELSE stk

\* The while loop of the Section branch: pop Sections of the same or a
\* higher level from the top of the stack, never the Document.
RECURSIVE PopSections(_, _)
PopSections(stk, level) ==
    IF Len(stk) > 1 /\ IsKind(Top(stk), Section) /\ nodes[Top(stk)].level >= level
    THEN PopSections(SubSeq(stk, 1, Len(stk) - 1), level)
    ELSE stk

\* Mutant of Open: the node is appended to the Document, stack[0], instead
\* of the current node.
OpenAtRoot(stk, node) ==
    LET ref == Len(nodes) + 1
    IN  /\ nodes' = Append([nodes EXCEPT ![stk[1]].children = Append(@, ref)], node)
        /\ stack' = Append(stk, ref)
        /\ UNCHANGED metadata
        /\ Return

\* Mutant of Open: children.insert(0, node), the node becomes the first child.
OpenPrepend(stk, node) ==
    LET ref == Len(nodes) + 1
    IN  /\ nodes' = Append([nodes EXCEPT ![Top(stk)].children = <<ref>> \o @], node)
        /\ stack' = Append(stk, ref)
        /\ UNCHANGED metadata
        /\ Return

\* stack[-1].children.append(node); stack.append(node), on stack stk.
Open(stk, node) ==
    LET ref == Len(nodes) + 1
    IN  /\ nodes' = Append([nodes EXCEPT ![Top(stk)].children = Append(@, ref)], node)
        /\ stack' = Append(stk, ref)
        /\ UNCHANGED metadata
        /\ Return

\* cmd.startswith("s") and cmd[1:].isdigit()
IsSectionCmd(cmd) == startswith(cmd, <<"s">>) /\ isdigit(Tail(cmd))

\* Mutant of CommandEnd: the check that the top is a Section is missing.
CommandEndPopsSection(lineno) ==
    IF Len(stack) = 1 THEN Raise("unexpected #end", lineno)
    ELSE /\ stack' = SubSeq(stack, 1, Len(stack) - 1)
         /\ UNCHANGED <<nodes, metadata>>
         /\ Return

\* Mutant of CommandEnd: #end with nothing open is ignored.
CommandEndLenient(lineno) ==
    IF Len(stack) = 1 THEN UNCHANGED <<stack, nodes, metadata>> /\ Return
    ELSE IF IsKind(Top(stack), Section) THEN Raise("sections do not use #end", lineno)
    ELSE /\ stack' = SubSeq(stack, 1, Len(stack) - 1)
         /\ UNCHANGED <<nodes, metadata>>
         /\ Return

\* The end branch of _handle_command.
CommandEnd(lineno) ==
    IF Len(stack) = 1 THEN Raise("unexpected #end", lineno)
    ELSE IF IsKind(Top(stack), Section) THEN Raise("sections do not use #end", lineno)
    ELSE /\ stack' = SubSeq(stack, 1, Len(stack) - 1)
         /\ UNCHANGED <<nodes, metadata>>
         /\ Return

\* Mutant of CommandOther: metadata is stored whatever the current node is.
CommandOtherAnywhere(cmd, arg, lineno) ==
    /\ metadata' = DictSet(metadata, cmd, arg)
    /\ UNCHANGED <<stack, nodes>>
    /\ Return

\* The metadata branch of _handle_command, and the final raise.
CommandOther(cmd, arg, lineno) ==
    IF IsKind(Top(stack), Document)
    THEN /\ metadata' = DictSet(metadata, cmd, arg)
         /\ UNCHANGED <<stack, nodes>>
         /\ Return
    ELSE Raise("unknown command", lineno)

\* Mutant of HandleCommand: the metadata test comes before the block
\* openers, so at document scope list, def and thm are stored as metadata.
HandleCommandMetadataFirst(line, lineno) ==
    LET parts == split1(line)
        cmd   == Tail(parts[1])
        arg   == IF Len(parts) > 1 THEN parts[2] ELSE <<>>
    IN  IF cmd = <<"e", "n", "d">> THEN CommandEnd(lineno)
        ELSE IF IsSectionCmd(cmd)
             THEN IF isdecimal(Tail(cmd))
                  THEN Open(PopSections(stack, int(Tail(cmd))),
                            NewSection(int(Tail(cmd)), arg))
                  ELSE RaiseValueError
        ELSE IF IsKind(Top(stack), Document) THEN CommandOther(cmd, arg, lineno)
        ELSE IF cmd = <<"l", "i", "s", "t">> THEN Open(stack, NewListBlock)
        ELSE IF cmd = <<"d", "e", "f">> THEN Open(stack, NewDefinition(arg))
        ELSE IF cmd = <<"t", "h", "m">> THEN Open(stack, NewTheorem(arg))
        ELSE CommandOther(cmd, arg, lineno)

\* _handle_command(line, lineno, stack)
HandleCommand(line, lineno) ==
    LET parts == split1(line)
        cmd   == Tail(parts[1])
        arg   == IF Len(parts) > 1 THEN parts[2] ELSE <<>>
    IN  IF cmd = <<"e", "n", "d">> THEN CommandEnd(lineno)
        ELSE IF IsSectionCmd(cmd)
             THEN IF isdecimal(Tail(cmd))
                  THEN Open(PopSections(stack, int(Tail(cmd))),
                            NewSection(int(Tail(cmd)), arg))
                  ELSE RaiseValueError
        ELSE IF cmd = <<"l", "i", "s", "t">> THEN Open(stack, NewListBlock)
        ELSE IF cmd = <<"d", "e", "f">> THEN Open(stack, NewDefinition(arg))
        ELSE IF cmd = <<"t", "h", "m">> THEN Open(stack, NewTheorem(arg))
        ELSE CommandOther(cmd, arg, lineno)

\* Mutant of ItemText: line[1:], only the dash is dropped.
ItemTextKeepsSpace(line) == SubSeq(line, 2, Len(line))

\* line[2:], the text of a list item.
ItemText(line) == SubSeq(line, 3, Len(line))

\* Mutant of HandleText: inside a ListBlock a line that is no item becomes
\* a Paragraph child of the ListBlock instead of an error.
HandleTextProseInList(line, lineno) ==
    IF strip(line) = <<>>
    THEN UNCHANGED <<stack, nodes, metadata>> /\ Return
    ELSE IF IsKind(Top(stack), ListBlock) /\ startswith(line, <<"-", " ">>)
    THEN /\ nodes' = [nodes EXCEPT ![Top(stack)].items = Append(@, ItemText(line))]
         /\ UNCHANGED <<stack, metadata>>
         /\ Return
    ELSE /\ nodes' = Append([nodes EXCEPT ![Top(stack)].children =
                                 Append(@, Len(nodes) + 1)],
                            NewParagraph(line))
         /\ UNCHANGED <<stack, metadata>>
         /\ Return

\* Mutant of HandleText: a Paragraph is appended to the Document, stack[0],
\* instead of the current node.
HandleTextAtRoot(line, lineno) ==
    IF strip(line) = <<>>
    THEN UNCHANGED <<stack, nodes, metadata>> /\ Return
    ELSE IF IsKind(Top(stack), ListBlock)
    THEN IF ~startswith(line, <<"-", " ">>)
         THEN Raise("list items must start with '- '", lineno)
         ELSE /\ nodes' = [nodes EXCEPT ![Top(stack)].items =
                               Append(@, ItemText(line))]
              /\ UNCHANGED <<stack, metadata>>
              /\ Return
    ELSE /\ nodes' = Append([nodes EXCEPT ![stack[1]].children =
                                 Append(@, Len(nodes) + 1)],
                            NewParagraph(line))
         /\ UNCHANGED <<stack, metadata>>
         /\ Return

\* Mutant of HandleText: the blank-line test comes after the ListBlock
\* test, so a blank line inside a ListBlock is rejected as a malformed item.
HandleTextBlankInList(line, lineno) ==
    IF IsKind(Top(stack), ListBlock)
    THEN IF ~startswith(line, <<"-", " ">>)
         THEN Raise("list items must start with '- '", lineno)
         ELSE /\ nodes' = [nodes EXCEPT ![Top(stack)].items =
                               Append(@, ItemText(line))]
              /\ UNCHANGED <<stack, metadata>>
              /\ Return
    ELSE IF strip(line) = <<>>
    THEN UNCHANGED <<stack, nodes, metadata>> /\ Return
    ELSE /\ nodes' = Append([nodes EXCEPT ![Top(stack)].children =
                                 Append(@, Len(nodes) + 1)],
                            NewParagraph(line))
         /\ UNCHANGED <<stack, metadata>>
         /\ Return

\* _handle_text(line, lineno, stack)
HandleText(line, lineno) ==
    IF strip(line) = <<>>
    THEN UNCHANGED <<stack, nodes, metadata>> /\ Return
    ELSE IF IsKind(Top(stack), ListBlock)
    THEN IF ~startswith(line, <<"-", " ">>)
         THEN Raise("list items must start with '- '", lineno)
         ELSE /\ nodes' = [nodes EXCEPT ![Top(stack)].items =
                               Append(@, ItemText(line))]
              /\ UNCHANGED <<stack, metadata>>
              /\ Return
    ELSE /\ nodes' = Append([nodes EXCEPT ![Top(stack)].children =
                                 Append(@, Len(nodes) + 1)],
                            NewParagraph(line))
         /\ UNCHANGED <<stack, metadata>>
         /\ Return

\* The classification of parse_blocks's loop body: line.startswith("#").
IsDirective(line) == startswith(line, <<"#">>)

\* One iteration of the loop of parse_blocks on a directive line.
CommandLine(raw) ==
    /\ status = "running"
    /\ Len(lines) < MaxLines
    /\ IsDirective(rstrip(raw))
    /\ lines' = Append(lines, raw)
    /\ before' = Append(before, [stack |-> stack, nodes |-> nodes])
    /\ HandleCommand(rstrip(raw), Len(lines) + 1)

\* One iteration of the loop of parse_blocks on any other line.
TextLine(raw) ==
    /\ status = "running"
    /\ Len(lines) < MaxLines
    /\ ~IsDirective(rstrip(raw))
    /\ lines' = Append(lines, raw)
    /\ before' = Append(before, [stack |-> stack, nodes |-> nodes])
    /\ HandleText(rstrip(raw), Len(lines) + 1)

\* Mutant of Unclosed: only the top of the stack is inspected.
UnclosedTopOnly(stk) ==
    Len(stk) > 1 /\ nodes[Top(stk)].kind \in {Definition, Theorem, ListBlock}

\* The check at end of input: some node above the Document is an explicit block.
Unclosed(stk) ==
    \E i \in 2..Len(stk) :
        nodes[stk[i]].kind \in {Definition, Theorem, ListBlock}

\* The input ends: the end-of-file check and the return of parse_blocks.
\* The ParseError raised here has no line number in its message (errLine 0).
EndOfFile ==
    /\ status = "running"
    /\ IF Unclosed(stack)
       THEN /\ status' = "error"
            /\ errMsg' = "Unclosed block at end of file"
            /\ errLine' = 0
       ELSE /\ status' = "returned"
            /\ UNCHANGED <<errMsg, errLine>>
    /\ UNCHANGED <<lines, stack, nodes, metadata, before>>

Next ==
    \/ \E raw \in LineSet : CommandLine(raw)
    \/ \E raw \in LineSet : TextLine(raw)
    \/ EndOfFile

Spec == Init /\ [][Next]_vars

-----------------------------------------------------------------------------
(* Vocabulary of the properties, stated on the input and the heap          *)

\* The line with its trailing whitespace removed, stated without recursion.
Trimmed(l) ==
    LET n == CHOOSE n \in 0..Len(l) :
                 /\ n = 0 \/ l[n] \notin Whitespace
                 /\ \A i \in (n + 1)..Len(l) : l[i] \in Whitespace
    IN  SubSeq(l, 1, n)

Blank(l) == \A i \in 1..Len(l) : l[i] \in Whitespace

StartsHash(l) == Len(l) > 0 /\ l[1] = "#"

\* Command word and argument of a directive line.
CmdOf(raw) == Tail(split1(Trimmed(raw))[1])
ArgOf(raw) == IF Len(split1(Trimmed(raw))) > 1 THEN split1(Trimmed(raw))[2] ELSE <<>>

IsEndLine(raw) == StartsHash(raw) /\ CmdOf(raw) = <<"e", "n", "d">>
\* A directive s<digits>; it is a Section directive, of the level the digits
\* denote, when they are decimal digits.
IsSLine(raw) ==
    /\ StartsHash(raw)
    /\ Len(CmdOf(raw)) >= 2
    /\ CmdOf(raw)[1] = "s"
    /\ \A i \in 2..Len(CmdOf(raw)) : CmdOf(raw)[i] \in Digits \cup NonDecimalDigits
IsSectionLine(raw) ==
    IsSLine(raw) /\ \A i \in 2..Len(CmdOf(raw)) : CmdOf(raw)[i] \in Digits
IsOpenerLine(raw) ==
    /\ StartsHash(raw)
    /\ CmdOf(raw) \in {<<"l", "i", "s", "t">>, <<"d", "e", "f">>, <<"t", "h", "m">>}
IsOtherLine(raw) ==
    StartsHash(raw) /\ ~IsEndLine(raw) /\ ~IsSLine(raw) /\ ~IsOpenerLine(raw)

\* The step that processes line raw from a non-failed state.
Processes(raw) == status = "running" /\ lines' = Append(lines, raw)

\* The line the step reads, if it reads one.
LineRead == IF Len(lines') > Len(lines) THEN {lines'[Len(lines')]} ELSE {}

Containers == {ListBlock, Definition, Theorem}

KindOf(ref) == nodes[ref].kind
LevelOf(ref) == nodes[ref].level

\* All nodes of the heap except ref are the same before and after the step.
OthersUnchanged(ref) ==
    \A i \in 1..Len(nodes) : i # ref => nodes'[i] = nodes[i]

TheS1 == <<"#", "s", "1", " ", "A">>
TheS2 == <<"#", "s", "2", " ", "B">>
TheDef == <<"#", "d", "e", "f", " ", "T">>
TheList == <<"#", "l", "i", "s", "t">>
TheEnd == <<"#", "e", "n", "d">>
TheKV == <<"#", "k", " ", "v">>
TheK == <<"#", "k">>

-----------------------------------------------------------------------------
(* C1 *)

NonBlankLines == SelectSeq(lines, LAMBDA l : ~Blank(l))

\* C1: for an input in which no line starts with '#', the parse does not
\* fail, the metadata is empty, and the Document's children are exactly one
\* Paragraph per non-blank line, in input order, whose text is the line with
\* its trailing whitespace removed; the heap holds no other node.
C1_ProseOnly ==
    (\A i \in 1..Len(lines) : ~StartsHash(lines[i])) =>
        /\ status \in {"running", "returned"}
        /\ DOMAIN metadata = {}
        /\ stack = <<1>>
        /\ Len(nodes) = 1 + Len(NonBlankLines)
        /\ nodes[1].children = [i \in 1..Len(NonBlankLines) |-> i + 1]
        /\ \A i \in 1..Len(NonBlankLines) :
              /\ nodes[i + 1].kind = Paragraph
              /\ nodes[i + 1].text = Trimmed(NonBlankLines[i])
              /\ nodes[i + 1].children = <<>>

\* A returned parse of three prose lines, one blank and one with trailing
\* whitespace.
C1_Witness ==
    /\ status = "returned"
    /\ lines = << <<"y", " ">>, <<" ">>, <<"x">> >>
    /\ nodes[1].children = <<2, 3>>

-----------------------------------------------------------------------------
(* C2 *)

\* C2: a Section directive of level L processed in a non-failed state pops
\* exactly the maximal run of Sections of level >= L at the top of the stack
\* (never the Document, never a container), appends the new Section as the
\* last child of the entry then on top and pushes it; and after s1, s2, s1
\* the Document has two level-1 Sections as children, the first holding the
\* level-2 Section.
C2_SectionStep ==
    [][ /\ \A raw \in LineRead :
              (Processes(raw) /\ IsSectionLine(raw)) =>
                  LET L   == int(Tail(CmdOf(raw)))
                      new == Len(nodes) + 1
                  IN  \E j \in 1..Len(stack) :
                        /\ \A i \in (j + 1)..Len(stack) :
                              KindOf(stack[i]) = Section /\ LevelOf(stack[i]) >= L
                        /\ j = 1 \/ KindOf(stack[j]) # Section \/ LevelOf(stack[j]) < L
                        /\ stack' = SubSeq(stack, 1, j) \o <<new>>
                        /\ Len(nodes') = new
                        /\ nodes'[new] = [kind |-> Section, level |-> L,
                                          title |-> ArgOf(raw), text |-> <<>>,
                                          items |-> <<>>, children |-> <<>>]
                        /\ nodes'[stack[j]] =
                              [nodes[stack[j]] EXCEPT !.children = Append(@, new)]
                        /\ OthersUnchanged(stack[j])
                        /\ status' = "running"
                        /\ metadata' = metadata
        /\ lines' = <<TheS1, TheS2, TheS1>> =>
              /\ stack' = <<1, 4>>
              /\ nodes'[1].children = <<2, 4>>
              /\ nodes'[2].children = <<3>>
              /\ nodes'[2].level = 1 /\ nodes'[3].level = 2 /\ nodes'[4].level = 1
              /\ nodes'[3].children = <<>> /\ nodes'[4].children = <<>>
      ]_vars

\* After s1, s2, s1: both open Sections were popped and the new one is on top.
C2_Witness ==
    /\ lines = <<TheS1, TheS2, TheS1>>
    /\ stack = <<1, 4>>
    /\ status = "running"

-----------------------------------------------------------------------------
(* C3 *)

\* C3 as stated: any two Sections on the stack are strictly level-ordered,
\* whatever lies between them.
C3_AnyTwoSections ==
    \A i, j \in 1..Len(stack) :
        (i < j /\ KindOf(stack[i]) = Section /\ KindOf(stack[j]) = Section)
            => LevelOf(stack[i]) < LevelOf(stack[j])

\* C3, amended: two Sections on the stack with only Sections between them
\* (no ListBlock, Definition or Theorem separating them) are strictly
\* level-ordered, the one nearer the bottom having the smaller level.
C3_SectionRuns ==
    \A i, j \in 1..Len(stack) :
        (i < j /\ \A k \in i..j : KindOf(stack[k]) = Section)
            => LevelOf(stack[i]) < LevelOf(stack[j])

\* After s2, s1, s2 the stack holds a run of two Sections, levels 1 and 2,
\* the first s2 having been popped.
C3_Witness ==
    /\ lines = <<TheS2, TheS1, TheS2>>
    /\ stack = <<1, 3, 4>>
    /\ LevelOf(3) = 1 /\ LevelOf(4) = 2

-----------------------------------------------------------------------------
(* C4 *)

Count(seq, P(_)) == Len(SelectSeq(seq, P))

\* The step on raw stored it as metadata, or failed with the metadata intact.
Stored(raw) ==
    /\ status' = "running"
    /\ CmdOf(raw) \in DOMAIN metadata'
    /\ metadata'[CmdOf(raw)] = ArgOf(raw)
NotStored(raw) ==
    /\ status' = "error"
    /\ metadata' = metadata

\* Some Section, ListBlock, Definition or Theorem was opened earlier.
SomethingOpened == \E i \in 1..Len(lines) : IsSectionLine(lines[i]) \/ IsOpenerLine(lines[i])

\* C4 as stated: an unrecognized command word is stored as metadata exactly
\* when the top of the stack is the Document, and the top of the stack is the
\* Document only while no Section or container has been opened yet.
C4_NeverAfterOpened ==
    [][ \A raw \in LineRead :
           (Processes(raw) /\ IsOtherLine(raw)) =>
               /\ (Top(stack) = 1 => Stored(raw))
               /\ (Top(stack) # 1 => NotStored(raw))
               /\ (Top(stack) = 1 => ~SomethingOpened)
      ]_vars

\* C4, amended: an unrecognized command word is stored as metadata exactly
\* when the top of the stack is the Document, and the top of the stack is the
\* Document exactly while no Section has been opened and every ListBlock,
\* Definition or Theorem opened earlier has been closed by an #end.
C4_MetadataAtDocument ==
    [][ \A raw \in LineRead :
           (Processes(raw) /\ IsOtherLine(raw)) =>
               /\ (Top(stack) = 1 => Stored(raw))
               /\ (Top(stack) # 1 => NotStored(raw))
               /\ (Top(stack) = 1 <=>
                      /\ \A i \in 1..Len(lines) : ~IsSectionLine(lines[i])
                      /\ Count(lines, IsOpenerLine) = Count(lines, IsEndLine))
      ]_vars

\* Metadata written after a Definition was opened and closed.
C4_Witness ==
    /\ lines = <<TheDef, TheEnd, TheKV>>
    /\ status = "running"
    /\ metadata[<<"k">>] = <<"v">>

-----------------------------------------------------------------------------
(* C5 *)

\* The Section directives among the input lines explored.
SectionLines == {raw \in LineSet : IsSectionLine(raw)}

SectionSeen(ls) == \E i \in 1..Len(ls) : ls[i] \in SectionLines

\* C5: once a Section directive has been processed, the stack holds more than
\* the Document in every later state, every later directive with an
\* unrecognized command word fails with "unknown command" at its own line
\* number, and the metadata never changes again.
C5_AfterSection ==
    [][ /\ SectionSeen(lines') => Len(stack') > 1
        /\ SectionSeen(lines) => metadata' = metadata
        /\ \A raw \in LineRead :
              (Processes(raw) /\ IsOtherLine(raw) /\ SectionSeen(lines)) =>
                  /\ status' = "error"
                  /\ errMsg' = "unknown command"
                  /\ errLine' = Len(lines) + 1
      ]_vars

\* An unknown command at line 4, after a Section and a Definition that was
\* opened and closed inside it.
C5_Witness ==
    /\ lines = <<TheS1, TheDef, TheEnd, TheKV>>
    /\ status = "error"
    /\ errMsg = "unknown command"
    /\ errLine = 4
    /\ stack = <<1, 2>>

-----------------------------------------------------------------------------
(* C6 *)

\* C6: with the stack exactly [Document], a directive with unrecognized
\* command word k and argument v sets metadata[k] = v, overwriting an earlier
\* value (the empty string when there is no argument), keeps every other
\* key, and leaves the stack and every node unchanged.
C6_MetadataWrite ==
    [][ \A raw \in LineRead :
           (Processes(raw) /\ IsOtherLine(raw) /\ stack = <<1>>) =>
               /\ DOMAIN metadata' = DOMAIN metadata \cup {CmdOf(raw)}
               /\ metadata'[CmdOf(raw)] =
                     (IF \E i \in 1..Len(Trimmed(raw)) : Trimmed(raw)[i] \in Whitespace
                      THEN ArgOf(raw) ELSE <<>>)
               /\ \A k \in DOMAIN metadata : k # CmdOf(raw) => metadata'[k] = metadata[k]
               /\ stack' = stack
               /\ nodes' = nodes
               /\ status' = "running"
      ]_vars

\* '#k v' then '#k': the later directive, without argument, overwrote the value.
C6_Witness ==
    /\ lines = <<TheKV, TheK>>
    /\ status = "running"
    /\ DOMAIN metadata = {<<"k">>}
    /\ metadata[<<"k">>] = <<>>

-----------------------------------------------------------------------------
(* C7 *)

\* C7: #end fails, with the line number, when the stack holds only the
\* Document and when the top of the stack is a Section; in every other state
\* it pops exactly the top entry, a ListBlock, Definition or Theorem, and
\* leaves every node and the metadata unchanged.
C7_End ==
    [][ \A raw \in LineRead :
           (Processes(raw) /\ IsEndLine(raw)) =>
               IF Len(stack) = 1 \/ KindOf(Top(stack)) = Section
               THEN /\ status' = "error"
                    /\ errLine' = Len(lines) + 1
                    /\ errMsg' = (IF Len(stack) = 1 THEN "unexpected #end"
                                  ELSE "sections do not use #end")
                    /\ stack' = stack /\ nodes' = nodes /\ metadata' = metadata
               ELSE /\ status' = "running"
                    /\ KindOf(Top(stack)) \in Containers
                    /\ Len(stack') = Len(stack) - 1
                    /\ \A i \in 1..Len(stack') : stack'[i] = stack[i]
                    /\ nodes' = nodes
                    /\ metadata' = metadata
      ]_vars

\* A Definition closed by #end, then a second #end failing at line 3.
C7_Witness ==
    /\ lines = <<TheDef, TheEnd, TheEnd>>
    /\ status = "error"
    /\ errMsg = "unexpected #end"
    /\ errLine = 3
    /\ stack = <<1>>

-----------------------------------------------------------------------------
(* C8 *)

TheItemA == <<"-", " ", "a">>
TheItemB == <<"-", " ", "b", " ">>

\* C8: while a ListBlock is the top of the stack, a non-blank non-directive
\* line (lines are classified after trailing whitespace is removed) that
\* starts with '- ' appends the rest of the line after those two characters
\* to the items of that ListBlock and changes nothing else; any other
\* non-blank non-directive line fails with "list items must start with '- '"
\* at its line number.  #list, '- a', '- b', #end yields one ListBlock child
\* with items [a, b].
C8_ListItems ==
    [][ /\ \A raw \in LineRead :
              (/\ Processes(raw)
               /\ KindOf(Top(stack)) = ListBlock
               /\ ~Blank(raw) /\ ~StartsHash(raw)) =>
                  LET l   == Trimmed(raw)
                      top == Top(stack)
                  IN  IF Len(l) >= 2 /\ l[1] = "-" /\ l[2] = " "
                      THEN /\ status' = "running"
                           /\ Len(nodes') = Len(nodes)
                           /\ nodes'[top].items =
                                 nodes[top].items \o <<[i \in 1..(Len(l) - 2) |-> l[i + 2]]>>
                           /\ nodes'[top].children = nodes[top].children
                           /\ OthersUnchanged(top)
                           /\ stack' = stack
                           /\ metadata' = metadata
                      ELSE /\ status' = "error"
                           /\ errMsg' = "list items must start with '- '"
                           /\ errLine' = Len(lines) + 1
                           /\ nodes' = nodes /\ stack' = stack /\ metadata' = metadata
        /\ lines' = <<TheList, TheItemA, TheItemB, TheEnd>> =>
              /\ status' # "error"
              /\ stack' = <<1>>
              /\ Len(nodes') = 2
              /\ nodes'[1].children = <<2>>
              /\ nodes'[2].kind = ListBlock
              /\ nodes'[2].items = << <<"a">>, <<"b">> >>
      ]_vars

\* The parse of #list, '- a', '- b', #end has returned.
C8_Witness ==
    /\ lines = <<TheList, TheItemA, TheItemB, TheEnd>>
    /\ status = "returned"
    /\ nodes[2].items = << <<"a">>, <<"b">> >>

-----------------------------------------------------------------------------
(* C9 *)

\* C9 as stated: every ListBlock has an empty child sequence.
C9_ListBlockChildless ==
    \A i \in 1..Len(nodes) : KindOf(i) = ListBlock => nodes[i].children = <<>>

\* C9, amended: no ListBlock ever has a Paragraph child: prose lines are
\* never appended as children of a ListBlock.  The children of a ListBlock
\* are the Sections, ListBlocks, Definitions and Theorems opened by
\* directives while it was the top of the stack.
C9_NoProseInListBlock ==
    \A i \in 1..Len(nodes) :
        KindOf(i) = ListBlock =>
            \A c \in 1..Len(nodes[i].children) :
                KindOf(nodes[i].children[c]) \in {Section, ListBlock, Definition, Theorem}

\* A returned tree whose ListBlock holds an item and a Definition child.
C9_Witness ==
    /\ status = "returned"
    /\ Len(lines) = 4
    /\ lines[1] = TheList /\ lines[2] = TheDef
    /\ KindOf(2) = ListBlock
    /\ nodes[2].children = <<3>>

-----------------------------------------------------------------------------
(* C10 *)

\* C10: when the input ends with every line processed without error, the
\* parse fails with "Unclosed block at end of file" if and only if some
\* entry of the stack above the Document is a ListBlock, Definition or
\* Theorem; otherwise it returns the Document, so Sections left on the stack
\* never make it fail.
C10_EndOfInput ==
    [][ (status = "running" /\ status' # "running" /\ lines' = lines) =>
            /\ (status' = "error" /\ errMsg' = "Unclosed block at end of file")
                  <=> (\E i \in 1..Len(stack) : i > 1 /\ KindOf(stack[i]) \in Containers)
            /\ status' = "returned"
                  <=> (\A i \in 1..Len(stack) : i > 1 => KindOf(stack[i]) = Section)
            /\ status' \in {"error", "returned"}
            /\ stack' = stack /\ nodes' = nodes /\ metadata' = metadata
            /\ stack[1] = 1 /\ KindOf(1) = Document
      ]_vars

\* The input ended with a Section on top of an open Definition: the parse
\* failed although the top of the stack is a Section.
C10_Witness ==
    /\ lines = <<TheDef, TheS1>>
    /\ stack = <<1, 2, 3>>
    /\ status = "error"
    /\ errMsg = "Unclosed block at end of file"

-----------------------------------------------------------------------------
(* C11 *)

\* C11: every failure carries the 1-based number of the line where it was
\* detected: a failure on a line carries that line's number, and the
\* "unclosed block" failure at the end of the input carries the
\* end-of-input line number.
C11_FailuresCarryLine ==
    status = "error" =>
        /\ errLine >= 1
        /\ errMsg # "Unclosed block at end of file" => errLine = Len(lines)
        /\ errMsg = "Unclosed block at end of file" =>
              errLine \in {Len(lines), Len(lines) + 1}

-----------------------------------------------------------------------------
(* C12 *)

\* C12: a parse ends in a returned Document or in exactly one ParseError and
\* in nothing else; the ParseError of a failing line is raised at the first
\* line that fails, carries that line's 1-based index, no line after it is
\* processed (the failing line is the last one consumed), and a failed parse
\* returns no Document.
C12_DocumentOrParseError ==
    /\ status \in {"running", "returned", "error"}
    /\ (status = "error" /\ errMsg # "Unclosed block at end of file") =>
          errLine = Len(lines)
    /\ status = "returned" => errMsg = "none"

-----------------------------------------------------------------------------
(* C13 *)

\* C13: every Section node has a level >= 1.
C13_SectionLevelPositive ==
    \A i \in 1..Len(nodes) : KindOf(i) = Section => LevelOf(i) >= 1

-----------------------------------------------------------------------------
(* C15 *)

IsItemLine(raw) ==
    Len(Trimmed(raw)) >= 2 /\ Trimmed(raw)[1] = "-" /\ Trimmed(raw)[2] = " "

\* The text of an item line: the trimmed line without its first two characters.
ItemOf(raw) == [i \in 1..(Len(Trimmed(raw)) - 2) |-> Trimmed(raw)[i + 2]]

\* The kind of container an opener line opens.
OpenedKind(raw) ==
    IF CmdOf(raw) = <<"l", "i", "s", "t">> THEN ListBlock
    ELSE IF CmdOf(raw) = <<"d", "e", "f">> THEN Definition
    ELSE Theorem

\* Lines o+1 .. e-1 are a body for the container opened at line o: no
\* directive among them, and in a ListBlock only item lines and blank lines.
IsBody(o, e) ==
    \A i \in (o + 1)..(e - 1) :
        /\ ~StartsHash(lines[i])
        /\ OpenedKind(lines[o]) = ListBlock => (IsItemLine(lines[i]) \/ Blank(lines[i]))

\* The non-blank lines among lines o+1 .. e-1.
BodyLines(o, e) == SelectSeq(SubSeq(lines, o + 1, e - 1), LAMBDA l : ~Blank(l))

\* A line failed: the parse ended in an exception raised while processing a line.
LineFailed ==
    /\ status \in {"error", "ValueError"}
    /\ errMsg # "Unclosed block at end of file"

\* C15: an opener processed in a non-failed state, then non-directive lines
\* (item lines or blank lines after #list), then #end: the #end succeeds,
\* the stack is again what it was before the opener, and the node that was
\* current has exactly one new child, the container, with the opener's title
\* and one Paragraph per non-blank prose line in order (a ListBlock: one
\* item per item line); no other node present before the opener changed.
C15_OpenBodyEnd ==
    \A o \in 1..Len(lines) :
        LET e    == Len(lines)
            was  == before[o]
            p    == Top(was.stack)
            c    == Len(was.nodes) + 1
            body == BodyLines(o, e)
        IN  (o < e /\ IsOpenerLine(lines[o]) /\ IsEndLine(lines[e]) /\ IsBody(o, e)) =>
                /\ ~LineFailed
                /\ stack = was.stack
                /\ nodes[p] = [was.nodes[p] EXCEPT !.children = Append(@, c)]
                /\ \A i \in 1..Len(was.nodes) : i # p => nodes[i] = was.nodes[i]
                /\ nodes[c].kind = OpenedKind(lines[o])
                /\ nodes[c].title =
                      (IF OpenedKind(lines[o]) = ListBlock THEN <<>> ELSE ArgOf(lines[o]))
                /\ IF OpenedKind(lines[o]) = ListBlock
                   THEN /\ Len(nodes) = c
                        /\ nodes[c].children = <<>>
                        /\ nodes[c].items = [i \in 1..Len(body) |-> ItemOf(body[i])]
                   ELSE /\ Len(nodes) = c + Len(body)
                        /\ nodes[c].items = <<>>
                        /\ nodes[c].children = [i \in 1..Len(body) |-> c + i]
                        /\ \A i \in 1..Len(body) :
                              /\ nodes[c + i].kind = Paragraph
                              /\ nodes[c + i].text = Trimmed(body[i])
                              /\ nodes[c + i].children = <<>>

\* Inside a Section: #def T, a prose line, #end; the Definition with its one
\* Paragraph is the Section's only child and the stack is back at the Section.
C15_Witness ==
    /\ lines = <<TheS1, TheDef, <<"y", " ">>, TheEnd>>
    /\ status = "running"
    /\ stack = <<1, 2>>
    /\ nodes[2].children = <<3>>
    /\ nodes[3].kind = Definition /\ nodes[3].title = <<"T">>
    /\ nodes[3].children = <<4>>
    /\ nodes[4].text = <<"y">>

-----------------------------------------------------------------------------
(* C16 *)

\* C16: the stack is never empty, its bottom entry is the Document, the only
\* Document of the heap, which is no node's child and appears nowhere else
\* on the stack, and every entry above the bottom is the last child of the
\* entry directly beneath it.
C16_StackIsRightmostPath ==
    /\ Len(stack) >= 1
    /\ stack[1] = 1
    /\ \A i \in 1..Len(nodes) : KindOf(i) = Document <=> i = 1
    /\ \A i \in 1..Len(nodes) :
          \A c \in 1..Len(nodes[i].children) : nodes[i].children[c] # 1
    /\ \A k \in 2..Len(stack) :
          /\ stack[k] # 1
          /\ nodes[stack[k - 1]].children # <<>>
          /\ nodes[stack[k - 1]].children[Len(nodes[stack[k - 1]].children)] = stack[k]

\* A stack of four entries, the open Section holding a Paragraph before the
\* open Definition.
C16_Witness ==
    /\ lines = <<TheS1, <<"x">>, TheDef, TheList>>
    /\ stack = <<1, 2, 4, 5>>
    /\ nodes[2].children = <<3, 4>>

-----------------------------------------------------------------------------
(* C17 *)

IsPrefix(a, b) == Len(a) <= Len(b) /\ \A i \in 1..Len(a) : a[i] = b[i]

\* The nodes whose child or item sequence is longer after the step.
Grown ==
    {i \in 1..Len(nodes) :
        \/ Len(nodes'[i].children) > Len(nodes[i].children)
        \/ Len(nodes'[i].items) > Len(nodes[i].items)}

\* C17: in every step each node's child sequence and item sequence before
\* the step is a prefix of the one after it; a step appends at most one
\* child or item in all, and only to the node that is the top of the stack
\* when it is appended: the current node for a Paragraph or an item, the
\* entry the new node is pushed onto for an opened node.
C17_AppendOnly ==
    [][ /\ Len(nodes') >= Len(nodes)
        /\ \A i \in 1..Len(nodes) :
              /\ IsPrefix(nodes[i].children, nodes'[i].children)
              /\ IsPrefix(nodes[i].items, nodes'[i].items)
        /\ \A i \in (Len(nodes) + 1)..Len(nodes') :
              nodes'[i].children = <<>> /\ nodes'[i].items = <<>>
        /\ Cardinality(Grown) <= 1
        /\ \A i \in Grown :
              /\ Len(nodes'[i].children) + Len(nodes'[i].items)
                    = Len(nodes[i].children) + Len(nodes[i].items) + 1
              /\ \/ stack' = stack /\ i = Top(stack)
                 \/ /\ Len(stack') >= 2
                    /\ IsPrefix(SubSeq(stack', 1, Len(stack') - 1), stack)
                    /\ i = stack'[Len(stack') - 1]
                    /\ Top(stack') = Len(nodes')
                    /\ Len(nodes'[i].children) > Len(nodes[i].children)
      ]_vars

\* The Document holds two children and its ListBlock two items.
C17_Witness ==
    /\ lines = << <<"x">>, TheList, TheItemA, TheItemB >>
    /\ nodes[1].children = <<2, 3>>
    /\ nodes[3].items = << <<"a">>, <<"b">> >>

-----------------------------------------------------------------------------
(* C18 *)

\* C18: a line that is empty or all whitespace, processed in any non-failed
\* state, leaves the stack, every node, the metadata and the outcome
\* unchanged, also when the top of the stack is a ListBlock; the state after
\* the line is the state before it, so what follows a blank line is parsed
\* as if the line were absent, but for the line numbers.
C18_BlankLineSkipped ==
    [][ \A raw \in LineRead :
           (Processes(raw) /\ Blank(raw)) =>
               /\ stack' = stack
               /\ nodes' = nodes
               /\ metadata' = metadata
               /\ status' = "running"
               /\ errMsg' = errMsg /\ errLine' = errLine
      ]_vars

\* Two blank lines skipped inside an open ListBlock, then an item accepted.
C18_Witness ==
    /\ lines = <<TheList, <<>>, <<" ">>, TheItemA>>
    /\ status = "running"
    /\ stack = <<1, 2>>
    /\ nodes[2].items = << <<"a">> >>

-----------------------------------------------------------------------------
(* C19 *)

\* Entry i of stack stk is a container with a Section somewhere above it.
Trapped(ns, stk, i) ==
    /\ ns[stk[i]].kind \in Containers
    /\ \E j \in (i + 1)..Len(stk) : ns[stk[j]].kind = Section

\* C19: a Section directive processed while a ListBlock, Definition or
\* Theorem is on the stack leaves that container on the stack beneath a
\* Section; from then on, in every step, the container stays where it is on
\* the stack, beneath a Section, and is never the top of the stack again;
\* #end with a Section on top fails; and the parse never returns.
C19_SectionInsideContainer ==
    [][ /\ \A raw \in LineRead :
              (Processes(raw) /\ IsSectionLine(raw)) =>
                  \A i \in 1..Len(stack) :
                      KindOf(stack[i]) \in Containers =>
                          /\ Len(stack') > i
                          /\ stack'[i] = stack[i]
                          /\ Trapped(nodes', stack', i)
        /\ \A i \in 1..Len(stack) :
              Trapped(nodes, stack, i) =>
                  /\ Len(stack') > i
                  /\ stack'[i] = stack[i]
                  /\ Trapped(nodes', stack', i)
                  /\ Top(stack') # stack[i]
                  /\ status' # "returned"
        /\ \A raw \in LineRead :
              (Processes(raw) /\ IsEndLine(raw) /\ KindOf(Top(stack)) = Section) =>
                  /\ status' = "error"
                  /\ errMsg' = "sections do not use #end"
                  /\ errLine' = Len(lines) + 1
                  /\ stack' = stack
      ]_vars

\* A Section opened inside a Definition, then a ListBlock opened above the
\* Section and closed: the Section is on top, the Definition still beneath it.
C19_Witness ==
    /\ lines = <<TheDef, TheS1, TheList, TheEnd>>
    /\ status = "running"
    /\ stack = <<1, 2, 3>>
    /\ KindOf(2) = Definition /\ KindOf(3) = Section

-----------------------------------------------------------------------------
(* C20 *)

\* A key that is a structural command word: end, list, def, thm or s<digits>.
StructuralKey(k) ==
    \/ k \in {<<"e", "n", "d">>, <<"l", "i", "s", "t">>, <<"d", "e", "f">>, <<"t", "h", "m">>}
    \/ /\ Len(k) >= 2
       /\ k[1] = "s"
       /\ \A i \in 2..Len(k) : k[i] \in Digits \cup NonDecimalDigits

\* C20: the metadata never holds a structural command word as a key and no
\* structural directive changes the metadata in any state; at document
\* scope #end fails with "unexpected #end" and #list, #def, #thm and
\* #s<decimal digits> open a node of their kind as a child of the Document.
C20_StructuralFirst ==
    [][ /\ \A k \in DOMAIN metadata' : ~StructuralKey(k)
        /\ \A raw \in LineRead :
              (Processes(raw) /\ (IsEndLine(raw) \/ IsSLine(raw) \/ IsOpenerLine(raw))) =>
                  /\ metadata' = metadata
                  /\ (stack = <<1>> /\ IsEndLine(raw)) =>
                        /\ status' = "error"
                        /\ errMsg' = "unexpected #end"
                        /\ errLine' = Len(lines) + 1
                  /\ (stack = <<1>> /\ (IsSectionLine(raw) \/ IsOpenerLine(raw))) =>
                        /\ status' = "running"
                        /\ Len(nodes') = Len(nodes) + 1
                        /\ stack' = <<1, Len(nodes')>>
                        /\ nodes'[1].children = Append(nodes[1].children, Len(nodes'))
                        /\ nodes'[Len(nodes')].kind =
                              (IF IsSectionLine(raw) THEN Section ELSE OpenedKind(raw))
      ]_vars

\* With metadata already written, #def opened a Definition at document
\* scope, #end closed it and #s2 opened a Section; the metadata kept its one key.
C20_Witness ==
    /\ lines = <<TheKV, TheDef, TheEnd, TheS2>>
    /\ status = "running"
    /\ stack = <<1, 3>>
    /\ DOMAIN metadata = {<<"k">>}

=============================================================================
